---------------------------- MODULE Spec2Model ----------------------------
(***************************************************************************)
(* Model of the image quantification tools of this repository:             *)
(*   scripts/run_batch_quant.py   list file -> per-image area/IntDen -> CSV*)
(*   quantify_images.py           headless Fiji macro -> CSV -> Excel      *)
(*   src/imagej_mean_intensity.py headless ImageJ macro -> CSV -> Excel    *)
(*                                                                         *)
(* Specifications                                                          *)
(*   Spec          run_batch_quant and quantify_images, whole runs         *)
(*   SpecMacro     the generated macro for any ThresholdConfig             *)
(*   SpecDefs      quantify_images for any measurement definitions         *)
(*   SpecQuantify  run_batch_quant on one image of any shape and content   *)
(*   SpecMean      imagej_mean_intensity, whole runs                       *)
(*   SpecLauncher  the prompt loop of prompt_for_fiji_launcher             *)
(*                                                                         *)
(* Conventions                                                             *)
(*   text      a sequence of one-character strings, wherever the program   *)
(*             builds or parses it; file names are atoms ordered by        *)
(*             NameOrder                                                   *)
(*   Optional  None is <<>>, a present value v is <<v>>                    *)
(*   float     a record [nan, root, num, den]: NaN, or the exact value     *)
(*             num/den, or (root) the square root of num/den               *)
(***************************************************************************)
EXTENDS Integers, Sequences, FiniteSets, TLC

VARIABLES
    prog,                \* which program is running
    pc,                  \* position in that main()
    fs,                  \* file system: name -> "missing" | "corrupt" | "other" | image
    list_file,           \* run_batch_quant: None or Some(lines of the list file)
    image_paths,         \* run_batch_quant main: image_paths
    idx,                 \* position of the per-image loop (Python loop / macro loop)
    results,             \* run_batch_quant main: results
    skipped,             \* run_batch_quant main: skipped
    log,                 \* what was printed and written, in order
    exit_code,           \* None while running, Some(code) at exit
    report,              \* None, or Some(written CSV rows / workbook)
    threshold,           \* quantify_images: the run's ThresholdConfig
    fileList,            \* macro: getFileList(inputDir)
    table,               \* macro: ImageJ's results table
    csv,                 \* results CSV on disk: None or Some(rows)
    fiji_rc,             \* return code of the Fiji subprocess
    image_names,         \* process_images: image_names
    thresholds,          \* process_images: thresholds
    measurement_results, \* process_images: measurement_results
    run_measurement_defs, \* process_images: measurement_defs (the run's MEASUREMENTS)
    args,                \* imagej_mean_intensity: parsed arguments and environment
    default_launcher,    \* prompt_for_fiji_launcher: default_launcher
    observed,            \* prompt_for_fiji_launcher: the input and the file system
                         \* as seen in the latest iteration of the prompt loop
    launcher             \* prompt_for_fiji_launcher: None, or Some(returned path)

vars == <<prog, pc, fs, list_file, image_paths, idx, results, skipped, log,
          exit_code, report, threshold, fileList, table, csv, fiji_rc,
          image_names, thresholds, measurement_results, run_measurement_defs,
          args, default_launcher, observed, launcher>>

batchVars == <<list_file, image_paths, results, skipped>>
fijiVars == <<threshold, fileList, table, csv, fiji_rc, image_names, thresholds,
              measurement_results>>
launcherVars == <<default_launcher, observed, launcher>>
otherVars == <<run_measurement_defs, args, default_launcher, observed, launcher>>

----------------------------------------------------------------------------
(* Bounds of the model *)

\* longest list file (in lines) given to run_batch_quant
MaxLines == 3

\* manual threshold values handed to the macro range over
\* -ManualBelow .. 255 + ManualAbove
ManualBelow == 5
ManualAbove == 45

----------------------------------------------------------------------------
(* Optional values, text, numbers *)

None == <<>>
Some(v) == <<v>>
TheValue(o) == o[1]

Digit == <<"0", "1", "2", "3", "4", "5", "6", "7", "8", "9">>

RECURSIVE Str(_)
\* str(n) / the macro's string form of a non-negative integer
Str(n) == IF n < 10 THEN <<Digit[n + 1]>>
          ELSE Str(n \div 10) \o <<Digit[(n % 10) + 1]>>

IsDigit(c) == \E d \in 1..10 : Digit[d] = c
DigitValue(c) == (CHOOSE d \in 1..10 : Digit[d] = c) - 1

\* all sequences over S of length at most n
SeqsUpTo(S, n) == UNION {[1..k -> S] : k \in 0..n}

\* all orderings of the finite set S
Perms(S) == {p \in [1..Cardinality(S) -> S] : \A x \in S : \E i \in DOMAIN p : p[i] = x}

RECURSIVE Gcd(_, _)
Gcd(a, b) == IF b = 0 THEN a ELSE Gcd(b, a % b)
Abs(a) == IF a < 0 THEN -a ELSE a

NaN == [nan |-> TRUE, root |-> FALSE, num |-> 0, den |-> 1]
IsNaN(x) == x.nan
\* the float num/den, in lowest terms
Frac(n, d) ==
    LET g == Gcd(Abs(n), Abs(d))
        s == IF d < 0 THEN -1 ELSE 1
    IN  [nan |-> FALSE, root |-> FALSE, num |-> s * (n \div g), den |-> s * (d \div g)]
FracAdd(x, y) == Frac(x.num * y.den + y.num * x.den, x.den * y.den)
FracSub(x, y) == Frac(x.num * y.den - y.num * x.den, x.den * y.den)
FracMul(x, y) == Frac(x.num * y.num, x.den * y.den)
FracDivInt(x, k) == Frac(x.num, x.den * k)

IsSquare(n) == \E k \in 0..n : k * k = n
IntSqrt(n) == CHOOSE k \in 0..n : k * k = n
\* math.sqrt of a non-negative fraction: exact when it is rational
Sqrt(x) ==
    IF IsSquare(x.num) /\ IsSquare(x.den)
    THEN Frac(IntSqrt(x.num), IntSqrt(x.den))
    ELSE [x EXCEPT !.root = TRUE]

----------------------------------------------------------------------------
(* Files *)

\* the image file names a list file or a folder may hold (so a folder has at
\* most three images), in ascending lexicographic order
NameOrder == <<"a.png", "b.png", "c.png">>
Names == {NameOrder[i] : i \in 1..Len(NameOrder)}
NameRank(n) == CHOOSE i \in 1..Len(NameOrder) : NameOrder[i] = n
\* a file of the folder whose extension is not supported
OtherName == "notes.txt"

\* decoded grayscale images: rows of pixel values
Images == {<<<<7>>>>, <<<<1, 2>>, <<3, 4>>>>}

File(k, px) == [kind |-> k, pixels |-> px]
Missing == File("missing", <<>>)
Corrupt == File("corrupt", <<>>)
Other == File("other", <<>>)
ImageFiles == {File("image", px) : px \in Images}

Event(stream, text, entry) == [stream |-> stream, text |-> text, entry |-> entry]

\* the arguments of a program that takes none from the command line
NoArgs == [imagej_path |-> None, env_path |-> None, input_dir |-> "dir",
           keep_csv |-> FALSE, dry_run |-> FALSE]
\* the launcher prompt before its first iteration
NoObservation == [input |-> None, candidate |-> <<>>, exists |-> FALSE, is_dir |-> FALSE,
                  resolved |-> <<>>, is_file |-> FALSE, x_ok |-> FALSE, probe |-> FALSE]
\* the state of the parts of the repository a run does not use
OtherIdle ==
    /\ args = NoArgs
    /\ default_launcher = None
    /\ observed = NoObservation
    /\ launcher = None

----------------------------------------------------------------------------
(* scripts/run_batch_quant.py *)

\* parse_args: --decimal-places default
DefaultDecimalPlaces == 3

\* one path per non-blank line of the list file, in the file's order
read_image_paths(lines) == SelectSeq(lines, LAMBDA l : l # "")

\* quantify_image raises RuntimeError when Image.open raises OSError
quantify_image_raises(file) == file.kind # "image"
\* np.float32: the number of significant bits
Float32Bits == 24

RECURSIVE Float32Round(_, _)
\* the np.float32 nearest to the non-negative integer n (ties to even), found
\* from the spacing ulp of the floats around n
Float32Round(n, ulp) ==
    IF n >= (2 ^ Float32Bits) * ulp
    THEN Float32Round(n, 2 * ulp)
    ELSE LET q == n \div ulp
             r == n % ulp
         IN  IF 2 * r < ulp THEN q * ulp
             ELSE IF 2 * r > ulp THEN (q + 1) * ulp
             ELSE IF q % 2 = 0 THEN q * ulp ELSE (q + 1) * ulp
float32(n) == Float32Round(n, 1)

RECURSIVE BlockSum(_, _, _)
\* numpy's sum of a block of at most 128 values a[lo..hi], every addition in
\* float32 (for 8-bit pixel values every partial sum of a block is exact, so
\* the order in which the block's accumulators add does not show)
BlockSum(a, lo, hi) ==
    IF lo > hi THEN 0
    ELSE IF lo = hi THEN a[lo]
    ELSE LET mid == (lo + hi) \div 2
         IN  float32(BlockSum(a, lo, mid) + BlockSum(a, mid + 1, hi))

RECURSIVE pairwise_sum(_, _, _)
\* ndarray.sum() of a contiguous float32 array: numpy's pairwise summation of
\* the n values from a[lo] on, every addition rounded to float32
pairwise_sum(a, lo, n) ==
    IF n <= 128
    THEN BlockSum(a, lo, lo + n - 1)
    ELSE LET half == n \div 2
             n2 == half - (half % 8)
         IN  float32(pairwise_sum(a, lo, n2) + pairwise_sum(a, lo + n2, n - n2))

\* the values of a 2-D array in row-major order
Flat(array) ==
    LET columns == Len(array[1])
    IN  [k \in 1..(Len(array) * columns) |->
            array[((k - 1) \div columns) + 1][((k - 1) % columns) + 1]]

quantify_image(file) ==
    LET grayscale_array == file.pixels
        area == Len(grayscale_array) * Len(grayscale_array[1])
        integrated_density == pairwise_sum(Flat(grayscale_array), 1, area)
    IN  <<area, integrated_density>>

\* "{:.Nf}".format(x) for the integer-valued floats quantify_image returns
FormatFixed(x, decimal_places) ==
    Str(x) \o (IF decimal_places = 0 THEN <<>>
               ELSE <<".">> \o [i \in 1..decimal_places |-> "0"])

\* the rows write_results writes, one per element of rows, in order
write_results(rows, decimal_places) ==
    [i \in 1..Len(rows) |->
        [Image |-> rows[i][1],
         Area |-> FormatFixed(rows[i][2], decimal_places),
         IntDen |-> FormatFixed(rows[i][3], decimal_places)]]

\* the entry main appends to skipped for a path that does not exist
SkipMissing(image_path) == <<image_path>>
\* the entry main appends to skipped when quantify_image raises
SkipError(image_path) ==
    <<image_path, " (error: ", "Failed to open ", image_path, ": ", "OSError", ")">>

BatchInit ==
    /\ prog = "run_batch_quant"
    /\ pc = "start"
    /\ fs \in [Names -> {Missing, Corrupt} \cup ImageFiles]
    /\ list_file \in {None} \cup {Some(l) : l \in SeqsUpTo(Names \cup {""}, MaxLines)}
    /\ image_paths = <<>>
    /\ idx = 1
    /\ results = <<>>
    /\ skipped = <<>>
    /\ log = <<>>
    /\ exit_code = None
    /\ report = None
    /\ threshold = None
    /\ fileList = <<>>
    /\ table = <<>>
    /\ csv = None
    /\ fiji_rc = None
    /\ image_names = <<>>
    /\ thresholds = <<>>
    /\ measurement_results = <<>>
    /\ run_measurement_defs = <<>>
    /\ OtherIdle

\* main, lines 108-116: read the list file; a missing or empty list ends the run
BatchReadList ==
    /\ prog = "run_batch_quant" /\ pc = "start"
    /\ IF list_file = None
       THEN /\ log' = log \o <<Event("stderr", "List file not found", <<>>)>>
            /\ exit_code' = Some(1)
            /\ pc' = "done"
            /\ UNCHANGED image_paths
       ELSE LET paths == read_image_paths(TheValue(list_file)) IN
            /\ image_paths' = paths
            /\ IF paths = <<>>
               THEN /\ log' = log \o <<Event("stderr",
                          "The provided list file does not contain any image paths.", <<>>)>>
                    /\ exit_code' = Some(1)
                    /\ pc' = "done"
               ELSE /\ pc' = "loop"
                    /\ UNCHANGED <<log, exit_code>>
    /\ UNCHANGED <<prog, fs, list_file, idx, results, skipped, report>>
    /\ UNCHANGED fijiVars
    /\ UNCHANGED otherVars

\* main, lines 121-132: one iteration of the per-image loop
BatchLoopStep ==
    /\ prog = "run_batch_quant" /\ pc = "loop"
    /\ idx <= Len(image_paths)
    /\ LET image_path == image_paths[idx]
           file == fs[image_path]
       IN  IF file.kind = "missing"
           THEN /\ skipped' = Append(skipped, SkipMissing(image_path))
                /\ UNCHANGED results
           ELSE IF quantify_image_raises(file)
           THEN /\ skipped' = Append(skipped, SkipError(image_path))
                /\ UNCHANGED results
           ELSE /\ results' = Append(results,
                        <<image_path, quantify_image(file)[1], quantify_image(file)[2]>>)
                /\ UNCHANGED skipped
    /\ idx' = idx + 1
    /\ UNCHANGED <<prog, pc, fs, list_file, image_paths, log, exit_code, report>>
    /\ UNCHANGED fijiVars
    /\ UNCHANGED otherVars

\* a plausible slip: the run goes on to write a report without any record
NoImagesProcessed_Never(rs) == FALSE
\* line 134: if not results
NoImagesProcessed(rs) == rs = <<>>

SkippedLines(text) == [i \in 1..Len(skipped) |-> Event("stderr", text, skipped[i])]

\* main, lines 134-153: after the loop
BatchFinish ==
    /\ prog = "run_batch_quant" /\ pc = "loop"
    /\ idx > Len(image_paths)
    /\ IF NoImagesProcessed(results)
       THEN /\ log' = log \o <<Event("stderr", "No images were processed successfully.", <<>>)>>
                          \o SkippedLines("Skipped: ")
            /\ exit_code' = Some(1)
            /\ UNCHANGED report
       ELSE \E written \in BOOLEAN :
            IF written
            THEN /\ report' = Some(write_results(results, DefaultDecimalPlaces))
                 /\ log' = log \o <<Event("file", "write_results", <<>>),
                                    Event("stdout", "Saved results to: ", <<>>)>>
                               \o (IF skipped # <<>>
                                   THEN <<Event("stderr", "The following images were skipped:", <<>>)>>
                                        \o SkippedLines("  ")
                                   ELSE <<>>)
                 /\ exit_code' = Some(0)
            ELSE /\ log' = log \o <<Event("stderr", "Failed to write output CSV: ", <<>>)>>
                 /\ exit_code' = Some(1)
                 /\ UNCHANGED report
    /\ pc' = "done"
    /\ UNCHANGED <<prog, fs, list_file, image_paths, idx, results, skipped>>
    /\ UNCHANGED fijiVars
    /\ UNCHANGED otherVars

----------------------------------------------------------------------------
(* quantify_image on one image of any shape and content *)

\* the small images have at most MaxRows rows and MaxCols columns
MaxRows == 2
MaxCols == 2
PixelValues == {0, 1, 255}
SmallImages ==
    UNION {[1..r -> [1..c -> PixelValues]] : r \in 1..MaxRows, c \in 1..MaxCols}
\* a white image of 5 x 13159 = 65795 pixels
LargeImage == [r \in 1..5 |-> [c \in 1..13159 |-> 255]]

QuantifyInit ==
    /\ prog = "run_batch_quant"
    /\ pc = "start"
    /\ \E px \in SmallImages \cup {LargeImage} :
           fs = [n \in Names |-> IF n = "a.png" THEN File("image", px) ELSE Missing]
    /\ list_file = Some(<<"a.png">>)
    /\ image_paths = <<>>
    /\ idx = 1
    /\ results = <<>>
    /\ skipped = <<>>
    /\ log = <<>>
    /\ exit_code = None
    /\ report = None
    /\ threshold = None
    /\ fileList = <<>>
    /\ table = <<>>
    /\ csv = None
    /\ fiji_rc = None
    /\ image_names = <<>>
    /\ thresholds = <<>>
    /\ measurement_results = <<>>
    /\ run_measurement_defs = <<>>
    /\ OtherIdle

BatchNext ==
    \/ BatchReadList
    \/ BatchLoopStep
    \/ BatchFinish

SpecQuantify == QuantifyInit /\ [][BatchNext]_vars

----------------------------------------------------------------------------
(* quantify_images.py: configuration and the generated macro *)

Measurement(key, display_name, imagej_option, result_column) ==
    [key |-> key, display_name |-> display_name,
     imagej_option |-> imagej_option, result_column |-> result_column]

MEASUREMENTS ==
    <<Measurement("area", "Area", "area", "Area"),
      Measurement("mean", "Mean", "mean", "Mean"),
      Measurement("std_dev", "StdDev", "standard", "StdDev"),
      Measurement("min", "Min", "min", "Min"),
      Measurement("max", "Max", "max", "Max"),
      Measurement("int_den", "IntDen", "integrated", "IntDen")>>

ResultColumns == {MEASUREMENTS[i].result_column : i \in 1..Len(MEASUREMENTS)}

ThresholdConfig(method, manual_value) == [method |-> method, manual_value |-> manual_value]

\* ThresholdConfig.macro_manual_value: int(self.manual_value or 0)
macro_manual_value(config) ==
    IF config.manual_value = None \/ TheValue(config.manual_value) = 0
    THEN 0
    ELSE TheValue(config.manual_value)

\* the macro's d2s(n, 2) for the integer bound getThreshold returns on an 8-bit image
d2s2(n) == Str(n) \o <<".", "0", "0">>

\* the macro's number-to-string conversion of an integer
MacroStr(n) == IF n < 0 THEN <<"-">> \o Str(-n) ELSE Str(n)

TextOtsu == <<"O", "t", "s", "u", " ", "(">>
TextManual == <<"M", "a", "n", "u", "a", "l", " ", "(">>
TextDash == <<"-">>

\* a plausible slip: the upper clamp is missing
ClampManual_LowerOnly(manualValue) == IF manualValue < 0 THEN 0 ELSE manualValue

\* macro lines 343-346: lower = manualValue, clamped to [0, 255]
ClampManual(manualValue) ==
    LET lower1 == IF manualValue < 0 THEN 0 ELSE manualValue
    IN  IF lower1 > 255 THEN 255 ELSE lower1

\* macro lines 338-349: the threshold set on the image and its label;
\* autoLower is the lower bound getThreshold reports after setAutoThreshold("Otsu")
MacroThreshold(thresholdMethod, manualValue, autoLower) ==
    IF thresholdMethod = "otsu"
    THEN [lower |-> autoLower,
          thresholdLabel |-> TextOtsu \o d2s2(autoLower) \o <<")">>]
    ELSE LET lower == ClampManual(manualValue)
         IN  [lower |-> lower,
              thresholdLabel |-> TextManual \o MacroStr(lower) \o <<")">>]

\* Path.suffix.lower() in SUPPORTED_EXTENSIONS / the macro's shouldProcess
HasSupportedExtension(name) == name \in Names

\* find_images: the supported image files of the folder, sorted
find_images(folder) ==
    LET found == {n \in DOMAIN folder :
                      HasSupportedExtension(n) /\ folder[n].kind \in {"image", "corrupt"}}
    IN  [i \in 1..Cardinality(found) |->
            CHOOSE n \in found : Cardinality({m \in found : NameRank(m) < NameRank(n)}) = i - 1]

----------------------------------------------------------------------------
(* quantify_images.py: the results CSV *)

\* cell texts of ImageJ's results table
CellEmpty == <<>>
CellJunk == <<"x">>
CellNaN == <<"N", "a", "N">>
CellTexts == {<<"1">>, <<"2">>, <<"3">>}

\* the measurement cells of one measured row (finite decimals, NaN, empty or
\* non-numeric text; no infinities): the same number in every
\* column, or a row with zero, empty, non-numeric, NaN and decimal cells (a
\* measurement limited to a threshold that selects no pixel has area 0 and no
\* defined mean or integrated density)
RowChoices ==
    {[c \in ResultColumns |-> t] : t \in CellTexts}
    \cup {[c \in ResultColumns |->
              CASE c = "Area" -> <<"0">>
                [] c \in {"Mean", "IntDen"} -> CellNaN
                [] c = "StdDev" -> CellJunk
                [] c = "Min" -> CellEmpty
                [] OTHER -> <<"2", ".", "5", "0", "0">>]}

\* dict.get / DictReader row.get for a column of measurement cells
RowGet(cells, column) == IF column \in DOMAIN cells THEN Some(cells[column]) ELSE None

IsNumberText(t) ==
    /\ \E i \in 1..Len(t) : IsDigit(t[i])
    /\ \A i \in 1..Len(t) : IsDigit(t[i]) \/ t[i] = "."
    /\ Cardinality({i \in 1..Len(t) : t[i] = "."}) <= 1

RECURSIVE DigitsValue(_)
DigitsValue(ds) == IF ds = <<>> THEN 0
                   ELSE 10 * DigitsValue(SubSeq(ds, 1, Len(ds) - 1)) + DigitValue(ds[Len(ds)])

RECURSIVE Pow10(_)
Pow10(k) == IF k = 0 THEN 1 ELSE 10 * Pow10(k - 1)

\* float(text) for plain decimal text; "NaN" parses to NaN
ParseFloat(t) ==
    LET digits == SelectSeq(t, IsDigit)
        dot == {i \in 1..Len(t) : t[i] = "."}
        decimals == IF dot = {} THEN 0 ELSE Len(t) - (CHOOSE i \in dot : TRUE)
    IN  Frac(DigitsValue(digits), Pow10(decimals))

\* a plausible slip: a missing or empty cell counts as zero
safe_float_EmptyIsZero(value) ==
    IF value = None \/ TheValue(value) = <<>>
    THEN Frac(0, 1)
    ELSE IF IsNumberText(TheValue(value)) THEN ParseFloat(TheValue(value)) ELSE NaN

\* safe_float: NaN for None, "" and text float() rejects
safe_float(value) ==
    IF value = None \/ TheValue(value) = <<>>
    THEN NaN
    ELSE IF IsNumberText(TheValue(value)) THEN ParseFloat(TheValue(value)) ELSE NaN

\* parse_results_csv, lines 464-472, for one row
ParseRow(row, measurement_defs) ==
    [image_name |-> IF row.Image # "" THEN row.Image ELSE row.Label,
     threshold |-> LET threshold_value == IF "Threshold Applied" \in row.columns
                                          THEN row.ThresholdApplied ELSE TextDash
                   IN  IF threshold_value # <<>> THEN threshold_value ELSE TextDash,
     measurement_row |->
        [d \in {measurement_defs[i].display_name : i \in 1..Len(measurement_defs)} |->
            LET measurement == measurement_defs[
                    CHOOSE i \in 1..Len(measurement_defs) :
                        /\ measurement_defs[i].display_name = d
                        /\ \A j \in (i + 1)..Len(measurement_defs) :
                               measurement_defs[j].display_name # d]
            IN  safe_float(RowGet(row.cells, measurement.result_column))]]

parse_results_csv(rows, measurement_defs) ==
    [image_names |-> [i \in 1..Len(rows) |-> ParseRow(rows[i], measurement_defs).image_name],
     thresholds |-> [i \in 1..Len(rows) |-> ParseRow(rows[i], measurement_defs).threshold],
     measurements |-> [i \in 1..Len(rows) |-> ParseRow(rows[i], measurement_defs).measurement_row]]

----------------------------------------------------------------------------
(* quantify_images.py: export_to_excel *)

RECURSIVE FracSum(_)
FracSum(xs) == IF xs = <<>> THEN Frac(0, 1) ELSE FracAdd(Head(xs), FracSum(Tail(xs)))

\* statistics.mean
mean(xs) == FracDivInt(FracSum(xs), Len(xs))

\* a plausible slip: the population standard deviation (divisor n)
pstdev(xs) ==
    LET c == mean(xs)
        ss == FracSum([i \in 1..Len(xs) |-> FracMul(FracSub(xs[i], c), FracSub(xs[i], c))])
    IN  Sqrt(FracDivInt(ss, Len(xs)))

\* statistics.stdev: the square root of the sample variance (divisor n - 1)
stdev(xs) ==
    LET c == mean(xs)
        ss == FracSum([i \in 1..Len(xs) |-> FracMul(FracSub(xs[i], c), FracSub(xs[i], c))])
    IN  Sqrt(FracDivInt(ss, Len(xs) - 1))

\* _excel_value: NaN becomes None (an empty cell)
excel_value(value) == IF IsNaN(value) THEN None ELSE Some(value)

\* result.get(display_name, float("nan"))
DictGet(result, display_name) ==
    IF display_name \in DOMAIN result THEN result[display_name] ELSE NaN

\* lines 554-555: the measurement's values over all results, and the ones kept
column_values(rs, display_name) == [i \in 1..Len(rs) |-> DictGet(rs[i], display_name)]
\* a plausible slip: NaN values are kept (and count as zero)
clean_values_KeepNaN(values) == values
clean_values(values) == SelectSeq(values, LAMBDA value : ~IsNaN(value))

\* lines 553-569: the summary row of one measurement
SummaryRow(measurement_def, rs) ==
    LET values == column_values(rs, measurement_def.display_name)
        clean == clean_values(values)
        mean_value == IF clean # <<>> THEN mean(clean) ELSE NaN
        stdev_value == IF clean # <<>> /\ Len(clean) > 1 THEN stdev(clean) ELSE NaN
    IN  [Measurement |-> measurement_def.display_name,
         Mean |-> excel_value(mean_value),
         StdDev |-> excel_value(stdev_value),
         Count |-> Len(clean)]

\* a plausible slip: a measurement without any valid value gets no row
SummaryRows_SkipEmpty(measurement_defs, rs) ==
    SelectSeq([i \in 1..Len(measurement_defs) |-> SummaryRow(measurement_defs[i], rs)],
              LAMBDA row : row.Count > 0)

\* lines 553-569: one summary row per measurement definition, in their order
SummaryRows(measurement_defs, rs) ==
    [i \in 1..Len(measurement_defs) |-> SummaryRow(measurement_defs[i], rs)]

Min2(a, b) == IF a < b THEN a ELSE b

\* the workbook export_to_excel builds
export_to_excel(rs, names, thrs, config, measurement_defs) ==
    [Measurements |->
        [i \in 1..Min2(Len(names), Min2(Len(thrs), Len(rs))) |->
            [Image |-> names[i],
             ThresholdApplied |-> thrs[i],
             values |-> [j \in 1..Len(measurement_defs) |->
                            excel_value(DictGet(rs[i], measurement_defs[j].display_name))]]],
     ThresholdMethod |-> config.method,
     ManualThreshold |-> IF config.method = "manual" THEN config.manual_value ELSE None,
     ImagesProcessed |-> Len(names),
     Summary |-> SummaryRows(measurement_defs, rs),
     Images |-> [i \in 1..Min2(Len(names), Len(thrs)) |-> <<names[i], thrs[i]>>]]

----------------------------------------------------------------------------
(* quantify_images.py: main *)

\* what prompt_threshold_method can return: otsu, or manual with 0 <= value <= 255
PromptManualValues == {0, 128, 255}
PromptThresholds ==
    {ThresholdConfig("otsu", None)}
    \cup {ThresholdConfig("manual", Some(v)) : v \in PromptManualValues}

\* lower bounds getThreshold may report after setAutoThreshold("Otsu")
AutoLowers == {0, 87}

\* the image every readable file of the folder decodes to
FolderImage == File("image", <<<<1, 2>>, <<3, 4>>>>)

FolderNames == Names \cup {OtherName}

SystemExit(message) == Event("SystemExit", message, <<>>)

FijiInit ==
    /\ prog = "quantify_images"
    /\ pc = "start"
    /\ fs \in {f \in [FolderNames -> {Missing, Corrupt, Other, FolderImage}] :
                  /\ f[OtherName] \in {Missing, Other}
                  /\ \A n \in Names : f[n] # Other}
    /\ list_file = None
    /\ image_paths = <<>>
    /\ idx = 1
    /\ results = <<>>
    /\ skipped = <<>>
    /\ log = <<>>
    /\ exit_code = None
    /\ report = None
    /\ threshold = None
    /\ fileList = <<>>
    /\ table = <<>>
    /\ csv = None
    /\ fiji_rc = None
    /\ image_names = <<>>
    /\ thresholds = <<>>
    /\ measurement_results = <<>>
    /\ run_measurement_defs = MEASUREMENTS
    /\ OtherIdle

\* gather_configuration: the prompts, then the confirmation. The folder is fs;
\* the launcher prompt returns some launcher, which may still fail to start
\* (FijiLaunch); the threshold prompt returns one of PromptThresholds.
FijiGather ==
    /\ prog = "quantify_images" /\ pc = "start"
    /\ \E config \in PromptThresholds, confirm \in {"y", "n"} :
        /\ threshold' = Some(config)
        /\ IF confirm # "y"
           THEN /\ log' = Append(log, SystemExit("Operation cancelled by user."))
                /\ exit_code' = Some(1)
                /\ pc' = "done"
           ELSE /\ pc' = "process"
                /\ UNCHANGED <<log, exit_code>>
    /\ UNCHANGED <<prog, fs, idx, report, fileList, table, csv, fiji_rc,
                   image_names, thresholds, measurement_results>>
    /\ UNCHANGED batchVars
    /\ UNCHANGED otherVars

\* process_images, lines 480-498, and run_fiji_macro's launch, lines 385-409:
\* no image ends the run; otherwise Fiji is started on the generated macro
FijiLaunch ==
    /\ prog = "quantify_images" /\ pc = "process"
    /\ IF find_images(fs) = <<>>
       THEN /\ log' = Append(log, SystemExit("No supported image files were found in the selected folder."))
            /\ exit_code' = Some(1)
            /\ pc' = "done"
            /\ UNCHANGED fileList
       ELSE \E launched \in BOOLEAN :
            IF launched
            THEN /\ fileList' \in Perms({n \in FolderNames : fs[n] # Missing})
                 /\ pc' = "macro"
                 /\ UNCHANGED <<log, exit_code>>
            ELSE /\ log' = Append(log, SystemExit("Fiji launcher not found"))
                 /\ exit_code' = Some(1)
                 /\ pc' = "done"
                 /\ UNCHANGED fileList
    /\ UNCHANGED <<prog, fs, idx, report, threshold, table, csv, fiji_rc,
                   image_names, thresholds, measurement_results>>
    /\ UNCHANGED batchVars
    /\ UNCHANGED otherVars

\* the macro, lines 328-358: one iteration of the loop over fileList.
\* The macro language has no error handling: open() failing ends the macro,
\* and the statements after the loop (saveAs) never run.
MacroStep ==
    /\ prog = "quantify_images" /\ pc = "macro"
    /\ idx <= Len(fileList)
    /\ LET name == fileList[idx]
           config == TheValue(threshold)
       IN  IF ~HasSupportedExtension(name)
           THEN /\ idx' = idx + 1
                /\ UNCHANGED <<pc, table, fiji_rc>>
           ELSE IF fs[name].kind # "image"
           THEN /\ fiji_rc' \in {Some(0), Some(1)}
                /\ pc' = "fiji_exited"
                /\ UNCHANGED <<idx, table>>
           ELSE \* Measure appends a row; its cells and, under Otsu, the lower
                \* bound are ImageJ's (autoLower is read only under Otsu, so it
                \* is fixed to 0 otherwise)
                \E autoLower \in AutoLowers, cells \in RowChoices :
                LET t == MacroThreshold(config.method, macro_manual_value(config), autoLower)
                IN  /\ (config.method # "otsu" => autoLower = 0)
                    /\ table' = Append(table,
                           [Image |-> name, Label |-> name,
                            columns |-> ResultColumns \cup {"Label", "Image", "Threshold Applied"},
                            ThresholdApplied |-> t.thresholdLabel,
                            cells |-> cells,
                            lower |-> t.lower])
                    /\ idx' = idx + 1
                    /\ UNCHANGED <<pc, fiji_rc>>
    /\ UNCHANGED <<prog, fs, log, exit_code, report, threshold, fileList, csv,
                   image_names, thresholds, measurement_results>>
    /\ UNCHANGED batchVars
    /\ UNCHANGED otherVars

\* the macro, lines 360-364: saveAs("Results", resultsPath), then Fiji exits
MacroEnd ==
    /\ prog = "quantify_images" /\ pc = "macro"
    /\ idx > Len(fileList)
    /\ csv' = Some(table)
    /\ table' = <<>>
    /\ fiji_rc' = Some(0)
    /\ pc' = "fiji_exited"
    /\ UNCHANGED <<prog, fs, idx, log, exit_code, report, threshold, fileList,
                   image_names, thresholds, measurement_results>>
    /\ UNCHANGED batchVars
    /\ UNCHANGED otherVars

\* run_fiji_macro, lines 396-429, then process_images, lines 500-508
FijiCollect ==
    /\ prog = "quantify_images" /\ pc = "fiji_exited"
    /\ IF fiji_rc # Some(0)
       THEN /\ log' = Append(log, SystemExit("Fiji exited with an error while executing the macro."))
            /\ exit_code' = Some(1)
            /\ pc' = "done"
            /\ UNCHANGED <<image_names, thresholds, measurement_results>>
       ELSE IF csv = None \/ csv = Some(<<>>)
       THEN /\ log' = Append(log, SystemExit("Fiji completed without producing a results CSV."))
            /\ exit_code' = Some(1)
            /\ pc' = "done"
            /\ UNCHANGED <<image_names, thresholds, measurement_results>>
       ELSE LET parsed == parse_results_csv(TheValue(csv), run_measurement_defs) IN
            /\ image_names' = parsed.image_names
            /\ thresholds' = parsed.thresholds
            /\ measurement_results' = parsed.measurements
            /\ IF parsed.image_names = <<>>
               THEN /\ log' = Append(log, SystemExit("The results CSV produced by Fiji did not contain any measurements."))
                    /\ exit_code' = Some(1)
                    /\ pc' = "done"
               ELSE /\ pc' = "export"
                    /\ UNCHANGED <<log, exit_code>>
    /\ UNCHANGED <<prog, fs, idx, report, threshold, fileList, table, csv, fiji_rc>>
    /\ UNCHANGED batchVars
    /\ UNCHANGED otherVars

\* main, lines 588-594: export_to_excel, then the closing message
FijiExport ==
    /\ prog = "quantify_images" /\ pc = "export"
    /\ \E saved \in BOOLEAN :
        IF saved
        THEN /\ report' = Some(export_to_excel(measurement_results, image_names, thresholds,
                                               TheValue(threshold), run_measurement_defs))
             /\ log' = log \o <<Event("file", "workbook.save", <<>>),
                                Event("stdout", "Processing complete! Measurements exported to:", <<>>)>>
             /\ exit_code' = Some(0)
        ELSE /\ log' = Append(log, SystemExit("Failed to write Excel report"))
             /\ exit_code' = Some(1)
             /\ UNCHANGED report
    /\ pc' = "done"
    /\ UNCHANGED <<prog, fs, idx, threshold, fileList, table, csv, fiji_rc,
                   image_names, thresholds, measurement_results>>
    /\ UNCHANGED batchVars
    /\ UNCHANGED otherVars

----------------------------------------------------------------------------
(* The two programs *)

Init == BatchInit \/ FijiInit

Next ==
    \/ BatchReadList
    \/ BatchLoopStep
    \/ BatchFinish
    \/ FijiGather
    \/ FijiLaunch
    \/ MacroStep
    \/ MacroEnd
    \/ FijiCollect
    \/ FijiExport

Spec == Init /\ [][Next]_vars

----------------------------------------------------------------------------
(* The generated macro run for any ThresholdConfig (build_macro_content takes *)
(* the configuration as a parameter; the prompts only produce part of them)   *)

AnyThresholds ==
    {ThresholdConfig(m, v) :
        m \in {"otsu", "manual", "none"},
        v \in {None} \cup {Some(k) : k \in (0 - ManualBelow)..(255 + ManualAbove)}}

MacroInit ==
    /\ prog = "quantify_images"
    /\ pc = "macro"
    /\ fs = [n \in FolderNames |-> IF n = "a.png" THEN FolderImage ELSE Missing]
    /\ list_file = None
    /\ image_paths = <<>>
    /\ idx = 1
    /\ results = <<>>
    /\ skipped = <<>>
    /\ log = <<>>
    /\ exit_code = None
    /\ report = None
    /\ threshold \in {Some(c) : c \in AnyThresholds}
    /\ fileList = <<"a.png">>
    /\ table = <<>>
    /\ csv = None
    /\ fiji_rc = None
    /\ image_names = <<>>
    /\ thresholds = <<>>
    /\ measurement_results = <<>>
    /\ run_measurement_defs = MEASUREMENTS
    /\ OtherIdle

MacroNext == MacroStep \/ MacroEnd

SpecMacro == MacroInit /\ [][MacroNext]_vars

----------------------------------------------------------------------------
(* quantify_images run with any measurement definitions (build_macro_content, *)
(* parse_results_csv and export_to_excel take them as a parameter)            *)

\* a measurement ImageJ does not have: its option adds no column to the table
UnknownMeasurement == Measurement("entropy", "Entropy", "entropy", "Entropy")

\* the measurement definitions of a run: the program's, or the program's with
\* an unknown measurement added at either end
DefChoices ==
    {MEASUREMENTS, MEASUREMENTS \o <<UnknownMeasurement>>,
     <<UnknownMeasurement>> \o MEASUREMENTS}

DefsInit ==
    /\ prog = "quantify_images"
    /\ pc = "start"
    /\ fs \in {f \in [FolderNames -> {Missing, FolderImage}] :
                  f["a.png"] = FolderImage /\ f["c.png"] = Missing /\ f[OtherName] = Missing}
    /\ list_file = None
    /\ image_paths = <<>>
    /\ idx = 1
    /\ results = <<>>
    /\ skipped = <<>>
    /\ log = <<>>
    /\ exit_code = None
    /\ report = None
    /\ threshold = None
    /\ fileList = <<>>
    /\ table = <<>>
    /\ csv = None
    /\ fiji_rc = None
    /\ image_names = <<>>
    /\ thresholds = <<>>
    /\ measurement_results = <<>>
    /\ run_measurement_defs \in DefChoices
    /\ OtherIdle

FijiNext ==
    \/ FijiGather
    \/ FijiLaunch
    \/ MacroStep
    \/ MacroEnd
    \/ FijiCollect
    \/ FijiExport

SpecDefs == DefsInit /\ [][FijiNext]_vars

----------------------------------------------------------------------------
(* src/imagej_mean_intensity.py *)

\* the command lines and environments of a run: --imagej, IMAGEJ_PATH (unset,
\* empty or set), what input_dir is, --keep-csv, --dry-run
MeanArgs ==
    [imagej_path : {None, Some("/opt/Fiji.app/ImageJ")},
     env_path : {None, Some(""), Some("/opt/Fiji.app/ImageJ")},
     input_dir : {"missing", "file", "dir"},
     keep_csv : BOOLEAN,
     dry_run : BOOLEAN]

\* the contents of the input directory
MeanFolders ==
    {[n \in FolderNames |-> Missing],
     [n \in FolderNames |-> IF n = OtherName THEN Other ELSE Missing],
     [n \in FolderNames |-> IF n = "a.png" THEN FolderImage ELSE Missing],
     [n \in FolderNames |-> IF n \in {"a.png", "b.png"} THEN FolderImage
                            ELSE IF n = OtherName THEN Other ELSE Missing]}

\* ensure_imagej_path: the argument, else a non-empty IMAGEJ_PATH, else ValueError
ensure_imagej_path(path_arg, env_path) ==
    IF path_arg # None THEN path_arg
    ELSE IF env_path # None /\ TheValue(env_path) # "" THEN env_path
    ELSE None

\* validate_inputs, lines 96-98: the files of the directory with a requested
\* extension (the default extensions)
matching_files(folder) ==
    {n \in DOMAIN folder : folder[n].kind # "missing" /\ HasSupportedExtension(n)}

\* a results CSV: its header and its data rows
ResultsCsv(columns, rows) == [columns |-> columns, rows |-> rows]
\* the rows the macro's loop measures: one per kept file, labelled with its name
MeanRows(folder) ==
    LET kept == SelectSeq(NameOrder, LAMBDA n : n \in matching_files(folder))
    IN  [i \in 1..Len(kept) |-> [Label |-> kept[i], Mean |-> <<"1">>]]
\* what the ImageJ process may leave at csv_path: nothing, an empty file, a
\* header alone, a table without a Mean column, or the table of the macro
ImageJOutputs(folder) ==
    {None,
     Some(ResultsCsv({}, <<>>)),
     Some(ResultsCsv({" ", "Label", "Mean"}, <<>>)),
     Some(ResultsCsv({" ", "Label", "Area"}, MeanRows(folder))),
     Some(ResultsCsv({" ", "Label", "Mean"}, MeanRows(folder)))}

\* len(rows) of csv.reader: the header line and the data lines
CsvLines(file) == (IF file.columns = {} THEN 0 ELSE 1) + Len(file.rows)

\* load_results, lines 194-200: Label renamed to Image, the Image and Mean columns kept
load_results(file) ==
    LET renamed == IF "Label" \in file.columns
                   THEN (file.columns \ {"Label"}) \cup {"Image"}
                   ELSE file.columns
    IN  [columns |-> renamed \cap {"Image", "Mean"},
         rows |-> [i \in 1..Len(file.rows) |->
                      [Image |-> file.rows[i].Label, Mean |-> file.rows[i].Mean]]]

\* a plausible slip: the dry-run guard of run_imagej is missing
RunsSubprocess_Always(dry_run) == TRUE
\* run_imagej, lines 163-165: a dry run prints the command and returns
RunsSubprocess(dry_run) == ~dry_run

\* an exception that leaves main uncaught
Raise(class, message) == Event("raise", class, <<message>>)

MeanInit ==
    /\ prog = "imagej_mean_intensity"
    /\ pc = "start"
    /\ fs \in MeanFolders
    /\ args \in MeanArgs
    /\ list_file = None
    /\ image_paths = <<>>
    /\ idx = 1
    /\ results = <<>>
    /\ skipped = <<>>
    /\ log = <<>>
    /\ exit_code = None
    /\ report = None
    /\ threshold = None
    /\ fileList = <<>>
    /\ table = <<>>
    /\ csv = None
    /\ fiji_rc = None
    /\ image_names = <<>>
    /\ thresholds = <<>>
    /\ measurement_results = <<>>
    /\ run_measurement_defs = <<>>
    /\ default_launcher = None
    /\ observed = NoObservation
    /\ launcher = None

\* main, lines 210-214
MeanEnsurePath ==
    /\ prog = "imagej_mean_intensity" /\ pc = "start"
    /\ IF ensure_imagej_path(args.imagej_path, args.env_path) = None
       THEN /\ log' = Append(log, Event("stderr",
                   "ImageJ executable path is required. Provide --imagej or set IMAGEJ_PATH.", <<>>))
            /\ exit_code' = Some(2)
            /\ pc' = "done"
       ELSE /\ pc' = "validate"
            /\ UNCHANGED <<log, exit_code>>
    /\ UNCHANGED <<prog, fs, idx, report, args>>
    /\ UNCHANGED <<batchVars, fijiVars, run_measurement_defs, launcherVars>>

\* main, lines 216-223: validate_inputs
MeanValidate ==
    /\ prog = "imagej_mean_intensity" /\ pc = "validate"
    /\ IF args.input_dir = "missing"
       THEN /\ log' = Append(log, Event("stderr", "Input directory does not exist: ", <<>>))
            /\ exit_code' = Some(2)
            /\ pc' = "done"
       ELSE IF args.input_dir # "dir"
       THEN /\ log' = Append(log, Event("stderr", "Input path is not a directory: ", <<>>))
            /\ exit_code' = Some(2)
            /\ pc' = "done"
       ELSE IF matching_files(fs) = {}
       THEN /\ log' = Append(log, Event("stderr",
                   "No images with the requested extensions were found in the input directory.", <<>>))
            /\ exit_code' = Some(2)
            /\ pc' = "done"
       ELSE /\ log' = Append(log, Event("stdout", "Found image(s) to process.", <<>>))
            /\ pc' = "run"
            /\ UNCHANGED exit_code
    /\ UNCHANGED <<prog, fs, idx, report, args>>
    /\ UNCHANGED <<batchVars, fijiVars, run_measurement_defs, launcherVars>>

\* main, lines 225-241: the macro is written, then run_imagej (lines 161-179)
MeanRunImageJ ==
    /\ prog = "imagej_mean_intensity" /\ pc = "run"
    /\ LET written == Append(log, Event("file", "measure_mean.ijm", <<>>))
           dry_complete == Event("stdout", "Dry run complete; no files were generated.", <<>>)
       IN  IF ~RunsSubprocess(args.dry_run)
           THEN /\ UNCHANGED <<csv, fiji_rc>>
                /\ IF args.dry_run
                   THEN /\ log' = written \o <<Event("stdout", "Dry run: would execute", <<>>),
                                              dry_complete>>
                        /\ exit_code' = Some(0)
                        /\ pc' = "done"
                   ELSE /\ log' = Append(written, Event("stdout", "Dry run: would execute", <<>>))
                        /\ pc' = "load"
                        /\ UNCHANGED exit_code
           ELSE \E rc \in {0, 1}, output \in ImageJOutputs(fs) :
                LET ran == Append(written, Event("exec", "subprocess.run", <<>>))
                IN  /\ fiji_rc' = Some(rc)
                    /\ csv' = output
                    /\ IF rc # 0
                       THEN /\ log' = Append(ran, Event("stderr",
                                   "ImageJ exited with a non-zero status.", <<>>))
                            /\ exit_code' = Some(1)
                            /\ pc' = "done"
                       ELSE IF args.dry_run
                       THEN /\ log' = Append(ran, dry_complete)
                            /\ exit_code' = Some(0)
                            /\ pc' = "done"
                       ELSE /\ log' = ran
                            /\ pc' = "load"
                            /\ UNCHANGED exit_code
    /\ UNCHANGED <<prog, fs, idx, report, args>>
    /\ UNCHANGED <<batchVars, threshold, fileList, table, image_names, thresholds,
                   measurement_results, run_measurement_defs, launcherVars>>

\* main, lines 243-252: load_results (lines 182-200), write_excel, --keep-csv.
\* Nothing in main catches what these raise.
MeanLoadAndWrite ==
    /\ prog = "imagej_mean_intensity" /\ pc = "load"
    /\ LET opened == Append(log, Event("read", "results.csv", <<>>)) IN
       IF csv = None
       THEN /\ log' = Append(opened, Raise("ImageJError",
                   "ImageJ did not create the expected results CSV file."))
            /\ pc' = "raised"
            /\ UNCHANGED <<exit_code, report>>
       ELSE IF CsvLines(TheValue(csv)) <= 1
       THEN /\ log' = Append(opened, Raise("ImageJError",
                   "The results CSV is empty. No measurements were recorded."))
            /\ pc' = "raised"
            /\ UNCHANGED <<exit_code, report>>
       ELSE IF "Mean" \notin TheValue(csv).columns
       THEN /\ log' = Append(opened, Raise("ImageJError",
                   "The results CSV does not contain a 'Mean' column."))
            /\ pc' = "raised"
            /\ UNCHANGED <<exit_code, report>>
       ELSE \E saved \in BOOLEAN :
            IF saved
            THEN /\ report' = Some([Excel |-> load_results(TheValue(csv)),
                                    KeptCsv |-> IF args.keep_csv THEN csv ELSE None])
                 /\ log' = opened \o <<Event("file", "to_excel", <<>>)>>
                              \o (IF args.keep_csv
                                  THEN <<Event("file", "kept csv", <<>>),
                                         Event("stdout", "Kept intermediate CSV at ", <<>>)>>
                                  ELSE <<>>)
                              \o <<Event("stdout", "Wrote mean intensity measurements to ", <<>>)>>
                 /\ exit_code' = Some(0)
                 /\ pc' = "done"
            ELSE /\ log' = Append(opened, Raise("OSError", "to_excel"))
                 /\ pc' = "raised"
                 /\ UNCHANGED <<exit_code, report>>
    /\ UNCHANGED <<prog, fs, idx, args>>
    /\ UNCHANGED <<batchVars, fijiVars, run_measurement_defs, launcherVars>>

MeanNext ==
    \/ MeanEnsurePath
    \/ MeanValidate
    \/ MeanRunImageJ
    \/ MeanLoadAndWrite

SpecMean == MeanInit /\ [][MeanNext]_vars

----------------------------------------------------------------------------
(* quantify_images.py: prompt_for_fiji_launcher *)

\* a path is the sequence of its parts
REQUIRED_LAUNCHER_SUFFIX == <<"Fiji.app", "Contents", "MacOS", "ImageJ-macosx">>
DEFAULT_FIJI_LAUNCHER == <<"/", "Applications", "ImageJ.app", "Contents", "MacOS", "ImageJ">>

\* the paths a user may type, and the paths a typed path may resolve to
FijiLauncher == <<"/", "Applications", "Fiji.app", "Contents", "MacOS", "ImageJ-macosx">>
LauncherPaths ==
    {DEFAULT_FIJI_LAUNCHER,
     FijiLauncher,
     <<"/", "Applications", "Fiji.app", "Contents", "MacOS", "JavaApplicationStub">>,
     <<"/", "Applications", "Fiji.app">>,
     <<"/", "MacOS", "ImageJ-macosx">>}

\* Path.name
PathName(path) == path[Len(path)]
\* name.lower().endswith(".app"), for the names of LauncherPaths
EndsWithApp(name) == name \in {"Fiji.app", "ImageJ.app"}

\* what the file system answers about a candidate during one iteration:
\* candidate.exists(), candidate.is_dir(), candidate.resolve() (the path with
\* symbolic links followed), resolved.is_file(), os.access(resolved, X_OK),
\* and whether probe_fiji_headless(resolved) succeeds
Worlds ==
    {w \in [exists : BOOLEAN, is_dir : BOOLEAN, resolved : LauncherPaths,
            is_file : BOOLEAN, x_ok : BOOLEAN, probe : BOOLEAN] :
        /\ w.is_dir => (w.exists /\ ~w.is_file)
        /\ w.is_file => w.exists
        /\ w.probe => w.x_ok}

\* a plausible slip: only the file name of the launcher is compared
LauncherSuffixOk_NameOnly(resolved) == PathName(resolved) = "ImageJ-macosx"
\* line 171: the last four parts of the resolved path are the required suffix
LauncherSuffixOk(resolved) ==
    ~(\/ Len(resolved) < Len(REQUIRED_LAUNCHER_SUFFIX)
      \/ SubSeq(resolved, Len(resolved) - 3, Len(resolved)) # REQUIRED_LAUNCHER_SUFFIX)

\* lines 152-183: whether the iteration reaches "return resolved"
LauncherAccepted(candidate, w) ==
    /\ PathName(candidate) # "JavaApplicationStub"
    /\ ~(w.is_dir /\ EndsWithApp(PathName(candidate)))
    /\ w.exists
    /\ w.is_file
    /\ LauncherSuffixOk(w.resolved)
    /\ w.x_ok
    /\ w.probe

LauncherInit ==
    /\ prog = "quantify_images"
    /\ pc = "prompt_launcher"
    /\ fs = [n \in FolderNames |-> Missing]
    /\ list_file = None
    /\ image_paths = <<>>
    /\ idx = 1
    /\ results = <<>>
    /\ skipped = <<>>
    /\ log = <<>>
    /\ exit_code = None
    /\ report = None
    /\ threshold = None
    /\ fileList = <<>>
    /\ table = <<>>
    /\ csv = None
    /\ fiji_rc = None
    /\ image_names = <<>>
    /\ thresholds = <<>>
    /\ measurement_results = <<>>
    /\ run_measurement_defs = MEASUREMENTS
    /\ args = NoArgs
    /\ default_launcher \in {None, Some(DEFAULT_FIJI_LAUNCHER), Some(FijiLauncher)}
    /\ observed = NoObservation
    /\ launcher = None

\* prompt_for_fiji_launcher, lines 138-183: one iteration of the prompt loop
\* (the messages it prints are left out of log, which would grow with every
\* new prompt)
PromptLauncherStep ==
    /\ prog = "quantify_images" /\ pc = "prompt_launcher"
    /\ \E user_input \in {None} \cup {Some(p) : p \in LauncherPaths}, w \in Worlds :
        IF user_input = None /\ default_launcher = None
        THEN /\ observed' = NoObservation
             /\ UNCHANGED <<pc, launcher>>
        ELSE LET candidate == IF user_input = None THEN TheValue(default_launcher)
                              ELSE TheValue(user_input)
             IN  /\ observed' = [input |-> user_input, candidate |-> candidate,
                                 exists |-> w.exists, is_dir |-> w.is_dir,
                                 resolved |-> w.resolved, is_file |-> w.is_file,
                                 x_ok |-> w.x_ok, probe |-> w.probe]
                 /\ IF LauncherAccepted(candidate, w)
                    THEN /\ launcher' = Some(w.resolved)
                         /\ pc' = "launcher_returned"
                    ELSE UNCHANGED <<pc, launcher>>
    /\ UNCHANGED <<prog, fs, idx, log, exit_code, report, default_launcher,
                   run_measurement_defs, args>>
    /\ UNCHANGED <<batchVars, fijiVars>>

LauncherNext == PromptLauncherStep

SpecLauncher == LauncherInit /\ [][LauncherNext]_vars

----------------------------------------------------------------------------
(* Views of a run shared by the properties *)

IsBatch == prog = "run_batch_quant"
IsFiji == prog = "quantify_images"
Done == pc = "done"

\* the images the per-image loop was given, in its order
LoopInputs == IF IsBatch THEN image_paths ELSE SelectSeq(fileList, HasSupportedExtension)
\* the names of the image records the run ended with, in their order
RecordNames == IF IsBatch THEN [i \in 1..Len(results) |-> results[i][1]] ELSE image_names
\* whether decoding and measuring the named image succeeds
Succeeds(name) == fs[name].kind = "image"
NonFailing(names) == SelectSeq(names, Succeeds)
LoopEntered == LoopInputs # <<>>

HasEvent(stream, text) == \E i \in 1..Len(log) : log[i].stream = stream /\ log[i].text = text
ReportWritten == report # None
WriteFailed == HasEvent("stderr", "Failed to write output CSV: ")
                  \/ HasEvent("SystemExit", "Failed to write Excel report")

Occurrences(seq, x) == Cardinality({i \in 1..Len(seq) : seq[i] = x})

----------------------------------------------------------------------------
(* C1 *)

\* C1: a failure while decoding or measuring one image never aborts the batch:
\* a run that entered the per-image loop ends holding the records of exactly
\* the non-failing images (so every image after a failing one was processed),
\* in both programs.
C1_FailureNeverAborts ==
    (Done /\ LoopEntered) => RecordNames = NonFailing(LoopInputs)

\* the same statement for run_batch_quant alone, whose loop catches the failure
C1_BatchLoopIsolates ==
    (IsBatch /\ Done /\ LoopEntered) =>
        /\ idx > Len(image_paths)
        /\ RecordNames = NonFailing(LoopInputs)

----------------------------------------------------------------------------
(* C2 *)

\* a skip entry carries a reason when it holds more than the path
HasReason(entry) == Len(entry) > 1

\* C2: after the per-image loop over n inputs every input is accounted for
\* exactly once, as a record or as a skip entry (records + skips = n), and
\* every skip entry carries a reason, also the skip of a missing file.
C2_EveryImageOnceWithReason ==
    (IsBatch /\ pc = "loop" /\ idx > Len(image_paths)) =>
        /\ Len(results) + Len(skipped) = Len(image_paths)
        /\ \A n \in Names :
               Occurrences(RecordNames, n)
               + Cardinality({i \in 1..Len(skipped) : skipped[i][1] = n})
                   = Occurrences(image_paths, n)
        /\ \A i \in 1..Len(skipped) : HasReason(skipped[i])

\* the counting half of C2 alone
C2_RecordsPlusSkips ==
    (IsBatch /\ pc = "loop" /\ idx > Len(image_paths)) =>
        /\ Len(results) + Len(skipped) = Len(image_paths)
        /\ \A n \in Names :
               Occurrences(RecordNames, n)
               + Cardinality({i \in 1..Len(skipped) : skipped[i][1] = n})
                   = Occurrences(image_paths, n)

----------------------------------------------------------------------------
(* C3 *)

\* the run reported a fatal message to its caller
FatalReported ==
    \E i \in 1..Len(log) : log[i].stream \in {"stderr", "SystemExit"}

\* C3: a run that ends with an empty input image set, or with zero records
\* because every image was skipped, ends fatally (exit code 1, a message for
\* the caller, no report) and never as a success.
C3_EmptyBatchIsFatal ==
    (Done /\ RecordNames = <<>>) =>
        /\ exit_code = Some(1)
        /\ FatalReported
        /\ ~ReportWritten
        /\ ~HasEvent("stdout", "Saved results to: ")
        /\ ~HasEvent("stdout", "Processing complete! Measurements exported to:")

\* two images were given, both were skipped, and the run ended with exit code 1
C3_Witness ==
    /\ IsBatch /\ Done
    /\ Len(image_paths) = 2 /\ Len(skipped) = 2 /\ results = <<>>
    /\ exit_code = Some(1)

----------------------------------------------------------------------------
(* C4 *)

\* the image names of the report's rows, in row order
ReportNames ==
    IF IsBatch
    THEN [i \in 1..Len(TheValue(report)) |-> TheValue(report)[i].Image]
    ELSE [i \in 1..Len(TheValue(report).Measurements) |-> TheValue(report).Measurements[i].Image]

\* C4: the output records are in ascending lexicographic order of file name,
\* whatever the order the images were supplied or processed in.
C4_RecordsSortedByName ==
    ReportWritten =>
        \A i \in 1..(Len(ReportNames) - 1) :
            NameRank(ReportNames[i]) <= NameRank(ReportNames[i + 1])

----------------------------------------------------------------------------
(* C5 *)

ConfigOrEmptyBatchError ==
    \/ HasEvent("stderr", "List file not found")
    \/ HasEvent("stderr", "The provided list file does not contain any image paths.")
    \/ HasEvent("stderr", "No images were processed successfully.")
    \/ HasEvent("SystemExit", "Operation cancelled by user.")
    \/ HasEvent("SystemExit", "No supported image files were found in the selected folder.")
    \/ HasEvent("SystemExit", "Fiji launcher not found")
    \/ HasEvent("SystemExit", "The results CSV produced by Fiji did not contain any measurements.")

\* every failing input is named in a warning printed in this run
FailuresWarned ==
    \A i \in 1..Len(LoopInputs) :
        ~Succeeds(LoopInputs[i]) =>
            \E j \in 1..Len(log) :
                /\ log[j].stream = "stderr"
                /\ log[j].entry # <<>>
                /\ log[j].entry[1] = LoopInputs[i]

SomeSucceededSomeFailed ==
    /\ \E i \in 1..Len(LoopInputs) : Succeeds(LoopInputs[i])
    /\ \E i \in 1..Len(LoopInputs) : ~Succeeds(LoopInputs[i])

\* C5: no report is written on a path that ends in a configuration error or an
\* empty-batch error; and a run in which at least one image succeeded and
\* others failed writes the report and warns about the failed images. (Runs
\* whose report write itself fails are left out of the second half.)
C5_ReportOnlyAfterSuccess ==
    Done =>
        /\ (ConfigOrEmptyBatchError => ~ReportWritten /\ ~HasEvent("file", "write_results")
                                        /\ ~HasEvent("file", "workbook.save"))
        /\ (SomeSucceededSomeFailed /\ ~WriteFailed /\ ~ConfigOrEmptyBatchError) =>
               (ReportWritten /\ FailuresWarned)

\* the first half of C5 alone
C5_NoReportOnFatalPath ==
    (Done /\ ConfigOrEmptyBatchError) =>
        /\ ~ReportWritten
        /\ ~HasEvent("file", "write_results")
        /\ ~HasEvent("file", "workbook.save")

\* the second half of C5 for run_batch_quant alone
C5_BatchWarnsAlongsideReport ==
    (IsBatch /\ Done /\ SomeSucceededSomeFailed /\ ~WriteFailed) =>
        (ReportWritten /\ FailuresWarned)

----------------------------------------------------------------------------
(* C6, C7, C8: the Summary sheet of the workbook *)

WorkbookWritten == IsFiji /\ ReportWritten
Summary == TheValue(report).Summary
NumResults == Len(measurement_results)

\* the indices of the results whose value for the measurement is not NaN
ValidIndices(display_name) ==
    {k \in 1..NumResults : ~IsNaN(measurement_results[k][display_name])}

RECURSIVE ValidSum(_, _)
\* the sum of the non-NaN values of the measurement over results 1..k
ValidSum(display_name, k) ==
    IF k = 0 THEN Frac(0, 1)
    ELSE IF IsNaN(measurement_results[k][display_name])
         THEN ValidSum(display_name, k - 1)
         ELSE FracAdd(ValidSum(display_name, k - 1), measurement_results[k][display_name])

RECURSIVE ValidSquares(_, _)
\* the sum of the squares of the non-NaN values of the measurement over results 1..k
ValidSquares(display_name, k) ==
    IF k = 0 THEN Frac(0, 1)
    ELSE IF IsNaN(measurement_results[k][display_name])
         THEN ValidSquares(display_name, k - 1)
         ELSE FracAdd(ValidSquares(display_name, k - 1),
                      FracMul(measurement_results[k][display_name],
                              measurement_results[k][display_name]))

\* C6: in every summary row, validCount is the number of non-NaN values of the
\* measurement; mean is NaN (an empty cell) exactly when validCount = 0; stdev
\* is NaN exactly when validCount <= 1; and the mean is the sum of the non-NaN
\* values alone divided by validCount, so NaN values never contribute.
C6_SummaryCountsValidValues ==
    WorkbookWritten =>
        \A i \in 1..Len(Summary) :
            LET row == Summary[i]
                valid == Cardinality(ValidIndices(row.Measurement))
            IN  /\ row.Count = valid
                /\ (row.Mean = None) <=> (valid = 0)
                /\ (row.StdDev = None) <=> (valid <= 1)
                /\ valid > 0 =>
                       FracMul(TheValue(row.Mean), Frac(valid, 1))
                           = ValidSum(row.Measurement, NumResults)

\* a workbook over three results in which a measurement has NaN for two of them:
\* validCount 1, a defined mean, stdev NaN
C6_Witness ==
    /\ WorkbookWritten
    /\ NumResults = 3
    /\ \E i \in 1..Len(Summary) :
           /\ Cardinality(ValidIndices(Summary[i].Measurement)) = 1
           /\ Summary[i].Count = 1
           /\ Summary[i].Mean # None
           /\ Summary[i].StdDev = None

\* the variance a summary stdev cell stands for
SquareOf(x) == IF x.root THEN [x EXCEPT !.root = FALSE] ELSE FracMul(x, x)

\* C7: for a measurement with N > 1 non-NaN values the summary mean is their
\* arithmetic mean and the summary stdev is the sample standard deviation,
\* divisor N - 1: N * (N - 1) * stdev^2 = N * sum(x^2) - (sum x)^2.
C7_SampleStandardDeviation ==
    WorkbookWritten =>
        \A i \in 1..Len(Summary) :
            LET row == Summary[i]
                n == Cardinality(ValidIndices(row.Measurement))
                sum == ValidSum(row.Measurement, NumResults)
                squares == ValidSquares(row.Measurement, NumResults)
            IN  n > 1 =>
                    /\ FracMul(TheValue(row.Mean), Frac(n, 1)) = sum
                    /\ FracMul(SquareOf(TheValue(row.StdDev)), Frac(n * (n - 1), 1))
                           = FracSub(FracMul(Frac(n, 1), squares), FracMul(sum, sum))

\* the values 1, 2, 3 of a measurement give mean 2, stdev 1, validCount 3
C7_Witness ==
    /\ WorkbookWritten
    /\ NumResults = 3
    /\ \E i \in 1..Len(Summary) :
           /\ {measurement_results[k][Summary[i].Measurement] : k \in 1..3}
                  = {Frac(1, 1), Frac(2, 1), Frac(3, 1)}
           /\ Summary[i].Mean = Some(Frac(2, 1))
           /\ Summary[i].StdDev = Some(Frac(1, 1))
           /\ Summary[i].Count = 3

\* C8: the summary has exactly one row per active measurement, in the order
\* of the measurement definitions, whatever the number of results and also
\* when results have no value (NaN) for a measurement.
C8_OneSummaryRowPerMeasurement ==
    WorkbookWritten =>
        /\ Len(Summary) = Len(MEASUREMENTS)
        /\ \A i \in 1..Len(MEASUREMENTS) :
               Summary[i].Measurement = MEASUREMENTS[i].display_name

\* a workbook over two results that both lack a value for one measurement,
\* which still has its row, in place
C8_Witness ==
    /\ WorkbookWritten
    /\ NumResults = 2
    /\ \E i \in 1..Len(MEASUREMENTS) :
           /\ ValidIndices(MEASUREMENTS[i].display_name) = {}
           /\ Len(Summary) >= i
           /\ Summary[i].Measurement = MEASUREMENTS[i].display_name
           /\ Summary[i].Count = 0

----------------------------------------------------------------------------
(* C9, C10: the threshold and its label *)

\* the rows the macro measured: the results table, or the CSV saved from it
MeasuredRows == IF csv # None THEN TheValue(csv) ELSE table

\* C9: the threshold label of every record is "-" when no threshold was
\* applied and otherwise the string form of the integer threshold value used
\* for masking. (The macro sets a threshold on every image it measures.)
C9_LabelIsThresholdValue ==
    (IsFiji /\ image_names # <<>>) =>
        \A i \in 1..Len(thresholds) :
            thresholds[i] = Str(TheValue(csv)[i].lower)

\* what the code stores instead: the macro's display text around the value
C9_LabelIsDisplayText ==
    (IsFiji /\ image_names # <<>>) =>
        \A i \in 1..Len(thresholds) :
            thresholds[i] =
                IF TheValue(threshold).method = "otsu"
                THEN TextOtsu \o Str(TheValue(csv)[i].lower) \o <<".", "0", "0", ")">>
                ELSE TextManual \o Str(TheValue(csv)[i].lower) \o <<")">>

Max2(a, b) == IF a > b THEN a ELSE b
\* v clamped to [0, 255]
Clamped(v) == Max2(0, Min2(255, v))

\* C10: for every manual threshold value v, the lower bound the macro sets for
\* masking (setThreshold(lower, 255)) and reports in the label is v clamped to
\* [0, 255].
C10_ManualThresholdClamped ==
    \A i \in 1..Len(MeasuredRows) :
        LET config == TheValue(threshold) IN
        (config.method = "manual" /\ config.manual_value # None) =>
            /\ MeasuredRows[i].lower = Clamped(TheValue(config.manual_value))
            /\ MeasuredRows[i].ThresholdApplied
                   = TextManual \o Str(Clamped(TheValue(config.manual_value))) \o <<")">>

\* manual value 300: the image was masked at 255 and labelled "Manual (255)"
C10_Witness ==
    /\ threshold = Some(ThresholdConfig("manual", Some(300)))
    /\ Len(table) = 1
    /\ table[1].lower = 255
    /\ table[1].ThresholdApplied = TextManual \o <<"2", "5", "5", ")">>

\* manual value -5: the image was masked at 0 and labelled "Manual (0)"
C10_WitnessBelow ==
    /\ threshold = Some(ThresholdConfig("manual", Some(-5)))
    /\ Len(table) = 1
    /\ table[1].lower = 0
    /\ table[1].ThresholdApplied = TextManual \o <<"0", ")">>

----------------------------------------------------------------------------
(* C11: a threshold configuration that is neither otsu nor manual *)

\* the method of the run's configuration asks for no threshold
NoThresholdPolicy == TheValue(threshold).method \notin {"otsu", "manual"}

C11_NoneRunsAsManual ==
    NoThresholdPolicy =>
        \A i \in 1..Len(MeasuredRows) :
            LET v == macro_manual_value(TheValue(threshold))
            IN  /\ MeasuredRows[i].lower = Clamped(v)
                /\ MeasuredRows[i].ThresholdApplied = TextManual \o Str(Clamped(v)) \o <<")">>

----------------------------------------------------------------------------
(* C13: measurements without any selected pixel *)

\* the image records exist: parse_results_csv has run on a results CSV
Parsed == IsFiji /\ csv # None /\ image_names # <<>>
\* the text ImageJ left in the results CSV for a measurement of row i
CsvCell(i, measurement) == RowGet(TheValue(csv)[i].cells, measurement.result_column)
\* the row reports no value for the measurement (what a measurement over an
\* empty selected population leaves): a missing, empty or NaN cell
NoValue(cell) == cell = None \/ TheValue(cell) \in {CellEmpty, CellNaN}
Cumulative(measurement) == measurement.key \in {"area", "int_den"}
MeasurementsOf(defs) == {defs[j] : j \in 1..Len(defs)}

\* C13: a measurement without any selected value never raises and yields NaN
\* for mean, std_dev, min and max, and 0 rather than NaN for the cumulative
\* measures (area, integrated density).
C13_EmptyPopulationValues ==
    Parsed =>
        /\ ~HasEvent("raise", "ValueError")
        /\ \A i \in 1..Len(measurement_results) :
           \A m \in MeasurementsOf(run_measurement_defs) :
               NoValue(CsvCell(i, m)) =>
                   measurement_results[i][m.display_name]
                       = IF Cumulative(m) THEN Frac(0, 1) ELSE NaN

\* what the code does: safe_float turns a missing, empty or NaN cell into NaN
\* for every measurement alike, the cumulative ones included
C13_NoValueIsNaN ==
    Parsed =>
        /\ ~HasEvent("raise", "ValueError")
        /\ \A i \in 1..Len(measurement_results) :
           \A m \in MeasurementsOf(run_measurement_defs) :
               NoValue(CsvCell(i, m)) => IsNaN(measurement_results[i][m.display_name])

----------------------------------------------------------------------------
(* C14: unknown measurement keys *)

KnownKeys == {MEASUREMENTS[j].key : j \in 1..Len(MEASUREMENTS)}
UnknownKeys == {m \in MeasurementsOf(run_measurement_defs) : m.key \notin KnownKeys}

C14_UnknownKeyIsEmptyColumn ==
    (WorkbookWritten /\ UnknownKeys # {}) =>
        \A j \in 1..Len(run_measurement_defs) :
            run_measurement_defs[j].key \notin KnownKeys =>
                \A i \in 1..Len(TheValue(report).Measurements) :
                    TheValue(report).Measurements[i].values[j] = None

----------------------------------------------------------------------------
(* C15: area and integrated density without a mask *)

\* the pixels of a decoded image, as the set of their positions
PixelPositions(px) == {<<r, c>> : r \in 1..Len(px), c \in 1..Len(px[1])}

RECURSIVE RangeSum(_, _, _)
\* the exact sum of a[lo..hi]
RangeSum(a, lo, hi) ==
    IF lo > hi THEN 0
    ELSE IF lo = hi THEN a[lo]
    ELSE LET mid == (lo + hi) \div 2
         IN  RangeSum(a, lo, mid) + RangeSum(a, mid + 1, hi)
\* the exact sum of all pixel values of a decoded image
PixelSum(px) ==
    RangeSum([r \in 1..Len(px) |-> RangeSum(px[r], 1, Len(px[r]))], 1, Len(px))

\* C15: without a mask, the area of every measured image is its number of
\* pixels (rows x columns) and its integrated density is the sum of all its
\* pixel values, for every image shape and pixel content.
C15_AreaAndIntegratedDensity ==
    IsBatch =>
        \A i \in 1..Len(results) :
            LET px == fs[results[i][1]].pixels
            IN  /\ results[i][2] = Cardinality(PixelPositions(px))
                /\ results[i][3] = PixelSum(px)

\* the same for the images whose pixel sum is below 2^24, where float32
\* accumulation is exact
C15_ExactBelowFloat32Limit ==
    IsBatch =>
        \A i \in 1..Len(results) :
            LET px == fs[results[i][1]].pixels
            IN  /\ results[i][2] = Cardinality(PixelPositions(px))
                /\ PixelSum(px) < 2 ^ Float32Bits => results[i][3] = PixelSum(px)

----------------------------------------------------------------------------
(* C16, C19: imagej_mean_intensity main *)

IsMean == prog = "imagej_mean_intensity"
\* the run was given no ImageJ path, by argument or by environment
NoImageJPath ==
    args.imagej_path = None /\ args.env_path \in {None, Some("")}
\* the input directory is missing, not a directory, or holds no matching file
InvalidInputDir ==
    \/ args.input_dir # "dir"
    \/ \A n \in Names : fs[n] = Missing
ImageJExecuted == HasEvent("exec", "subprocess.run") \/ fiji_rc # None
ResultsRead == HasEvent("read", "results.csv")
OutputWritten ==
    report # None \/ HasEvent("file", "to_excel") \/ HasEvent("file", "kept csv")
DryRunCompleted == HasEvent("stdout", "Dry run complete; no files were generated.")

\* C16: with --dry-run, main never executes the ImageJ command, never reads a
\* results CSV, never writes the Excel output or a kept CSV, and returns 0,
\* unless validation (ImageJ path, input directory, matching files), which
\* still runs first, ends the run with exit code 2.
C16_DryRunTouchesNothing ==
    (IsMean /\ args.dry_run) =>
        /\ ~ImageJExecuted
        /\ ~ResultsRead
        /\ ~OutputWritten
        /\ pc # "raised"
        /\ Done =>
               /\ exit_code = IF NoImageJPath \/ InvalidInputDir THEN Some(2) ELSE Some(0)
               /\ DryRunCompleted <=> exit_code = Some(0)

\* a dry run over a valid directory ended with exit code 0 after printing the command
C16_Witness ==
    /\ IsMean /\ args.dry_run /\ Done
    /\ exit_code = Some(0)
    /\ HasEvent("stdout", "Dry run: would execute")
    /\ DryRunCompleted

\* a dry run over a directory without a matching file ended with exit code 2
C16_WitnessInvalid ==
    /\ IsMean /\ args.dry_run /\ Done
    /\ ~NoImageJPath /\ args.input_dir = "dir"
    /\ exit_code = Some(2)

\* ImageJ ran for real and failed to produce measurement data
ImageJErrorOccurred ==
    /\ ~args.dry_run
    /\ \/ fiji_rc = Some(1)
       \/ /\ fiji_rc = Some(0)
          /\ ResultsRead
          /\ \/ csv = None
             \/ CsvLines(TheValue(csv)) <= 1
             \/ "Mean" \notin TheValue(csv).columns
Ended == pc \in {"done", "raised"}
ExcelWriteFailed == HasEvent("raise", "OSError")

\* C19: main always ends by returning an exit code: 2 for a missing ImageJ path
\* or an invalid or empty input directory, 1 whenever an ImageJError occurred
\* (non-zero exit, results CSV missing or empty, no Mean column), 0 only after
\* the Excel file was written or the dry run completed; no ImageJError leaves
\* main uncaught. (Runs in which writing the Excel file itself fails are left out.)
C19_MainAlwaysReturnsCode ==
    (IsMean /\ Ended /\ ~ExcelWriteFailed) =>
        /\ ~HasEvent("raise", "ImageJError")
        /\ exit_code \in {Some(0), Some(1), Some(2)}
        /\ (exit_code = Some(2)) <=> (NoImageJPath \/ InvalidInputDir)
        /\ ImageJErrorOccurred => exit_code = Some(1)
        /\ exit_code = Some(0) => (HasEvent("file", "to_excel") \/ DryRunCompleted)

\* what holds of the code: the exit codes are as claimed whenever main returns,
\* an ImageJError of run_imagej makes it return 1, and an ImageJError of
\* load_results leaves main as an uncaught exception
C19_ReturnsUnlessLoadFails ==
    (IsMean /\ Ended) =>
        /\ pc = "done" =>
               /\ exit_code \in {Some(0), Some(1), Some(2)}
               /\ (exit_code = Some(2)) <=> (NoImageJPath \/ InvalidInputDir)
               /\ (exit_code = Some(1)) <=> (fiji_rc = Some(1))
               /\ exit_code = Some(0) => (HasEvent("file", "to_excel") \/ DryRunCompleted)
        /\ pc = "raised" =>
               /\ exit_code = None
               /\ fiji_rc = Some(0)
               /\ HasEvent("raise", "ImageJError") <=> ImageJErrorOccurred
               /\ HasEvent("raise", "ImageJError") \/ ExcelWriteFailed

----------------------------------------------------------------------------
(* C17: the lists parse_results_csv returns *)

DisplayNames(defs) == {defs[j].display_name : j \in 1..Len(defs)}
\* the cell holds no number: it is missing, empty or text float() rejects
Unparsable(cell) == cell = None \/ TheValue(cell) \in {CellEmpty, CellJunk}

\* C17: after parse_results_csv the name list, the threshold list and the
\* measurement list have one entry per result row; every per-image mapping has
\* exactly the display names of the run's measurements as keys; a missing or
\* unparsable cell gives NaN and a decimal cell gives its value.
C17_ParsedListsAligned ==
    Parsed =>
        /\ Len(image_names) = Len(TheValue(csv))
        /\ Len(thresholds) = Len(TheValue(csv))
        /\ Len(measurement_results) = Len(TheValue(csv))
        /\ \A i \in 1..Len(measurement_results) :
               /\ DOMAIN measurement_results[i] = DisplayNames(run_measurement_defs)
               /\ image_names[i] = TheValue(csv)[i].Image
               /\ \A m \in MeasurementsOf(run_measurement_defs) :
                      LET cell == CsvCell(i, m)
                          value == measurement_results[i][m.display_name]
                      IN  /\ Unparsable(cell) => IsNaN(value)
                          /\ cell = Some(<<"1">>) => value = Frac(1, 1)
                          /\ cell = Some(<<"0">>) => value = Frac(0, 1)
                          /\ cell = Some(<<"2", ".", "5", "0", "0">>) => value = Frac(5, 2)

\* two result rows were parsed, one of them with an empty and a non-numeric
\* cell, which became NaN next to the parsed values of the other cells
C17_Witness ==
    /\ Parsed
    /\ Len(TheValue(csv)) = 2 /\ Len(measurement_results) = 2
    /\ \E i \in 1..2 :
           /\ TheValue(csv)[i].cells["Min"] = CellEmpty
           /\ TheValue(csv)[i].cells["StdDev"] = CellJunk
           /\ IsNaN(measurement_results[i]["Min"])
           /\ IsNaN(measurement_results[i]["StdDev"])
           /\ measurement_results[i]["Max"] = Frac(5, 2)

----------------------------------------------------------------------------
(* C18: what prompt_for_fiji_launcher returns *)

\* the last four parts of the path are Fiji.app/Contents/MacOS/ImageJ-macosx
EndsWithRequiredSuffix(path) ==
    /\ Len(path) >= 4
    /\ path[Len(path) - 3] = "Fiji.app"
    /\ path[Len(path) - 2] = "Contents"
    /\ path[Len(path) - 1] = "MacOS"
    /\ path[Len(path)] = "ImageJ-macosx"

\* the returned path passed every check in the iteration that returned it
ReturnedLauncherChecked ==
    launcher # None =>
        /\ launcher = Some(observed.resolved)
        /\ observed.exists
        /\ observed.is_file
        /\ EndsWithRequiredSuffix(observed.resolved)
        /\ observed.x_ok
        /\ observed.probe
\* the prompt loop is left only by returning
RePromptsUntilReturn == (pc = "prompt_launcher") <=> (launcher = None)

\* C18 as stated: the returned path existed, resolved to a regular file with
\* the required suffix, was executable and passed the probe in the iteration
\* that returned it; so accepting (empty input) a default launcher that does
\* not end with the suffix never returns.
C18_DefaultWithoutSuffixNeverReturns ==
    /\ ReturnedLauncherChecked
    /\ RePromptsUntilReturn
    /\ (/\ observed.input = None
        /\ default_launcher # None
        /\ ~EndsWithRequiredSuffix(TheValue(default_launcher))) => launcher = None

\* C18 amended: the same, with the consequence for a default launcher whose
\* resolved path (symbolic links followed) does not end with the suffix.
C18_UnresolvedDefaultNeverReturns ==
    /\ ReturnedLauncherChecked
    /\ RePromptsUntilReturn
    /\ (/\ observed.input = None
        /\ observed # NoObservation
        /\ ~EndsWithRequiredSuffix(observed.resolved)) => launcher = None

\* the default launcher was accepted with empty input and returned
C18_Witness ==
    /\ pc = "launcher_returned"
    /\ observed.input = None
    /\ default_launcher # None
    /\ launcher = Some(observed.resolved)
    /\ EndsWithRequiredSuffix(observed.resolved)

\* a default launcher whose resolved path lacks the suffix was accepted with
\* empty input, passed every other check, and the prompt did not return
C18_WitnessRePrompt ==
    /\ pc = "prompt_launcher"
    /\ observed.input = None
    /\ default_launcher = Some(DEFAULT_FIJI_LAUNCHER)
    /\ observed.resolved = DEFAULT_FIJI_LAUNCHER
    /\ observed.exists /\ observed.is_file /\ observed.x_ok /\ observed.probe
    /\ launcher = None

============================================================================
